---- MODULE Spec2Model ----
(***************************************************************************)
(* Model of agent/src/ios/pinning.ts: the iOS SSL-pinning bypass.          *)
(*                                                                         *)
(* The state is the instrumented process as the agent sees it: which       *)
(* classes, methods and exports exist (image), which Interceptor listeners *)
(* are attached and which exports are replaced, the Job that a running     *)
(* disable() is filling, the jobs handed to jobs.add, and the observable   *)
(* outcome of the last application call that went through a hooked         *)
(* function.                                                               *)
(***************************************************************************)
EXTENDS Integers, Sequences, FiniteSets, TLC

VARIABLES
    image,        \* the targets present in the process image
    quiet,        \* pinning.ts:49, the module-level quiet flag
    pc,           \* position of the running disable(), "idle" when none runs
    outcome,      \* how the last disable() ended: "none", "returned", "threw"
    failure,      \* the strategy that threw and why
    attempted,    \* strategies the running/last disable() has called
    invocations,  \* number of disable() calls started so far
    job,          \* the Job of the running/last disable()
    jobs,         \* Jobs handed to jobs.add, in order
    listeners,    \* attached InvocationListeners (Interceptor.attach)
    nextListener, \* next listener handle
    replaced,     \* export |-> identifier of the job whose replacement is live, 0 if none
    blocks,       \* completion block |-> its current entry point (0 = the original)
    synth,        \* the synthetic completion handlers created so far
    pskAlloc,     \* the buffer returned by the last SSL_get_psk_identity replacement call
    obs,          \* what the last application call did and returned
    tornDown,     \* identifiers of the Jobs that were torn down
    quietWrites,  \* one entry per write of quiet: were hooks installed at the write?
    released      \* identifiers of the jobs whose synthetic verify callback is freed

vars == <<image, quiet, pc, outcome, failure, attempted, invocations, job, jobs,
          listeners, nextListener, replaced, blocks, synth, pskAlloc, obs,
          tornDown, quietWrites, released>>

----------------------------------------------------------------------------
(* Bounds of the model *)

\* at most this many targets are missing from the full process image
MaxAbsent == 2
\* at most this many disable() calls in one process
MaxInvocations == 2
\* at most this many synthetic completion handlers are created
MaxSynth == 3

----------------------------------------------------------------------------
(* The process image *)

AFClasses == {"AFHTTPSessionManager", "AFSecurityPolicy"}
AFMethods == <<"- setSSLPinningMode:", "- setAllowInvalidCertificates:",
               "+ policyWithPinningMode:",
               "+ policyWithPinningMode:withPinnedCertificates:">>
TSKClass == "TSKPinningValidator"
TSKMethod == "- evaluateTrust:forHostname:"
CordovaClass == "CustomURLConnectionDelegate"
CordovaMethod == "- isFingerprintTrusted:"
\* implementations matching -[* URLSession:didReceiveChallenge:completionHandler:]
DelegateImpls == <<"DelegateA", "DelegateB">>
Exports == {"SSLSetSessionOption", "SSLCreateContext", "SSLHandshake",
            "tls_helper_create_peer_trust", "nw_tls_create_peer_trust",
            "SSL_set_custom_verify", "SSL_CTX_set_custom_verify",
            "SSL_get_psk_identity"}

Range(s) == {s[i] : i \in DOMAIN s}

AllTargets == AFClasses \cup Range(AFMethods) \cup {TSKClass, TSKMethod}
              \cup {CordovaClass, CordovaMethod} \cup Range(DelegateImpls)
              \cup Exports

\* the class a method belongs to; a method exists only in a loaded class
ClassOf(m) == IF m \in Range(AFMethods) THEN "AFSecurityPolicy"
              ELSE IF m = TSKMethod THEN TSKClass
              ELSE IF m = CordovaMethod THEN CordovaClass
              ELSE m

Images == {{t \in AllTargets \ a : ClassOf(t) \notin a} :
              a \in {x \in SUBSET AllTargets : Cardinality(x) <= MaxAbsent}}

NULL == "NULL"
UNDEFINED == "undefined"

\* ./lib/libobjc.js: libObjc.<name>, the export's address, NULL when unresolved
libObjc(name) == IF name \in image THEN name ELSE NULL

\* ObjC.classes.<name>: truthy iff the class is loaded
ObjCClass(name) == name \in image

\* Class["<selector>"].implementation; reading it off a missing method throws
Implementation(m) == IF m \in image THEN m ELSE UNDEFINED

----------------------------------------------------------------------------
(* Frida's Interceptor, as the strategies use it.  An interceptor state is  *)
(* [lst, nl, rep, err]: the attached listeners, the next listener handle,   *)
(* the replaced exports, and the error thrown so far ("" when none).  Once  *)
(* an error is thrown the rest of the strategy does not run.                *)

NoListener == [id |-> 0, addr |-> NULL, ident |-> 0]

Cur == [lst |-> listeners, nl |-> nextListener, rep |-> replaced, err |-> ""]

\* Interceptor.attach(target, callbacks): a new listener; several listeners
\* may sit on one address; an unresolvable target throws
InterceptorAttach(st, target, ident) ==
    IF st.err # "" THEN st
    ELSE IF target = UNDEFINED THEN [st EXCEPT !.err = "missing_method"]
    ELSE IF target = NULL THEN [st EXCEPT !.err = "null_address"]
    ELSE [st EXCEPT !.lst = @ \cup {[id |-> st.nl, addr |-> target, ident |-> ident]},
                    !.nl = @ + 1]

\* Interceptor.replace(target, replacement): throws on an unresolvable target
\* and on a target that is already replaced
InterceptorReplace(st, target, ident) ==
    IF st.err # "" THEN st
    ELSE IF target = NULL THEN [st EXCEPT !.err = "null_address"]
    ELSE IF st.rep[target] # 0 THEN [st EXCEPT !.err = "conflict"]
    ELSE [st EXCEPT !.rep[target] = ident]

\* the listeners an interceptor state gained over an earlier one, oldest first
RECURSIVE NewListeners(_, _)
NewListeners(before, after) ==
    IF before.nl >= after.nl THEN <<>>
    ELSE <<CHOOSE l \in after.lst : l.id = before.nl>>
         \o NewListeners([before EXCEPT !.nl = @ + 1], after)

----------------------------------------------------------------------------
(* ../lib/jobs.js: a Job records what it is given *)

NewJob(identifier) == [identifier |-> identifier, invocations |-> <<>>,
                       replacements |-> <<>>]
addInvocation(j, i) == [j EXCEPT !.invocations = Append(@, i)]
addReplacement(j, r) == [j EXCEPT !.replacements = Append(@, r)]

RECURSIVE addInvocations(_, _)
addInvocations(j, is) ==
    IF is = <<>> THEN j ELSE addInvocations(addInvocation(j, Head(is)), Tail(is))

RECURSIVE addReplacements(_, _)
addReplacements(j, rs) ==
    IF rs = <<>> THEN j ELSE addReplacements(addReplacement(j, Head(rs)), Tail(rs))

----------------------------------------------------------------------------
(* The strategies.  Each takes the interceptor state it starts from and the *)
(* job identifier and yields [st, ret]: the interceptor state it leaves and *)
(* the value it returns (meaningful only when st.err = "").                 *)

afNetworking(st, ident) ==
    IF ~(ObjCClass("AFHTTPSessionManager") /\ ObjCClass("AFSecurityPolicy"))
    THEN [st |-> st, ret |-> <<>>]
    ELSE LET s1 == InterceptorAttach(st, Implementation(AFMethods[1]), ident)
             s2 == InterceptorAttach(s1, Implementation(AFMethods[2]), ident)
             s3 == InterceptorAttach(s2, Implementation(AFMethods[3]), ident)
             s4 == IF AFMethods[4] \in image
                   THEN InterceptorAttach(s3, Implementation(AFMethods[4]), ident)
                   ELSE s3
         IN [st |-> s4, ret |-> NewListeners(st, s4)]

\* resolver.enumerateMatches("-[* URLSession:didReceiveChallenge:completionHandler:]")
enumerateMatches == SelectSeq(DelegateImpls, LAMBDA d : d \in image)

RECURSIVE AttachAll(_, _, _)
AttachAll(st, addrs, ident) ==
    IF addrs = <<>> THEN st
    ELSE AttachAll(InterceptorAttach(st, Head(addrs), ident), Tail(addrs), ident)

nsUrlSession(st, ident) ==
    LET search == enumerateMatches
    IN IF Len(search) <= 0 THEN [st |-> st, ret |-> <<>>]
       ELSE LET s1 == AttachAll(st, search, ident)
            IN [st |-> s1, ret |-> NewListeners(st, s1)]

trustKit(st, ident) ==
    IF ~ObjCClass(TSKClass) THEN [st |-> st, ret |-> NoListener]
    ELSE LET s1 == InterceptorAttach(st, Implementation(TSKMethod), ident)
         IN [st |-> s1, ret |-> IF s1.err = "" THEN NewListeners(st, s1)[1] ELSE NoListener]

cordovaCustomURLConnectionDelegate(st, ident) ==
    IF ~ObjCClass(CordovaClass) THEN [st |-> st, ret |-> NoListener]
    ELSE LET s1 == InterceptorAttach(st, Implementation(CordovaMethod), ident)
         IN [st |-> s1, ret |-> IF s1.err = "" THEN NewListeners(st, s1)[1] ELSE NoListener]

sSLSetSessionOption(st, ident) ==
    LET SSLSetSessionOption == libObjc("SSLSetSessionOption")
    IN [st |-> InterceptorReplace(st, SSLSetSessionOption, ident),
        ret |-> SSLSetSessionOption]

sSLCreateContext(st, ident) ==
    LET SSLCreateContext == libObjc("SSLCreateContext")
    IN [st |-> InterceptorReplace(st, SSLCreateContext, ident),
        ret |-> SSLCreateContext]

sSLHandshake(st, ident) ==
    LET SSLHandshake == libObjc("SSLHandshake")
    IN [st |-> InterceptorReplace(st, SSLHandshake, ident), ret |-> SSLHandshake]

tlsHelperCreatePeerTrust(st, ident) ==
    LET tlsHelper == libObjc("tls_helper_create_peer_trust")
    IN IF tlsHelper = NULL THEN [st |-> st, ret |-> NULL]
       ELSE [st |-> InterceptorReplace(st, tlsHelper, ident), ret |-> tlsHelper]

nwTlsCreatePeerTrust(st, ident) ==
    LET peerTrust == libObjc("nw_tls_create_peer_trust")
    IN IF peerTrust = NULL THEN [st |-> st, ret |-> NoListener]
       ELSE LET s1 == InterceptorAttach(st, peerTrust, ident)
            IN [st |-> s1, ret |-> IF s1.err = "" THEN NewListeners(st, s1)[1] ELSE NoListener]

\* the verify-installer the strategy settles on: the primary name, else the fallback
setCustomVerifyAltPrimaryOnly == libObjc("SSL_set_custom_verify")
setCustomVerify ==
    IF libObjc("SSL_set_custom_verify") = NULL
    THEN libObjc("SSL_CTX_set_custom_verify")
    ELSE libObjc("SSL_set_custom_verify")

sSLCtxSetCustomVerify(st, ident) ==
    LET getPskIdentity == libObjc("SSL_get_psk_identity")
    IN IF setCustomVerify = NULL \/ getPskIdentity = NULL
       THEN [st |-> st, ret |-> <<>>]
       ELSE LET s1 == InterceptorReplace(st, setCustomVerify, ident)
                s2 == InterceptorReplace(s1, getPskIdentity, ident)
            IN [st |-> s2, ret |-> <<setCustomVerify, getPskIdentity>>]

----------------------------------------------------------------------------
(* disable(q), one step per statement of its body.  A strategy that throws  *)
(* ends the call there: disable has no handler around any of them.          *)

Strategies == <<"afNetworking", "nsUrlSession", "trustKit",
                "cordovaCustomURLConnectionDelegate", "sSLSetSessionOption",
                "sSLCreateContext", "sSLHandshake", "tlsHelperCreatePeerTrust",
                "nwTlsCreatePeerTrust", "sSLCtxSetCustomVerify">>

NoFailure == [strategy |-> "", cause |-> ""]

\* one statement of disable: the strategy call r and, when it returned, the
\* Job with its result recorded
Statement(name, r, recorded, next) ==
    /\ pc = name
    /\ attempted' = attempted \cup {name}
    /\ listeners' = r.st.lst
    /\ nextListener' = r.st.nl
    /\ replaced' = r.st.rep
    /\ IF r.st.err = ""
       THEN /\ job' = recorded
            /\ pc' = next
            /\ UNCHANGED <<outcome, failure>>
       ELSE /\ pc' = "idle"
            /\ outcome' = "threw"
            /\ failure' = [strategy |-> name, cause |-> r.st.err]
            /\ UNCHANGED job
    /\ UNCHANGED <<image, quiet, invocations, jobs, blocks, synth, pskAlloc, obs,
                   tornDown, quietWrites, released>>

\* some hook is live in the process
HooksInstalled == listeners # {} \/ \E e \in Exports : replaced[e] # 0

disable(q) ==
    /\ pc = "idle"
    /\ invocations < MaxInvocations
    /\ quiet' = IF q THEN TRUE ELSE quiet
    /\ invocations' = invocations + 1
    /\ job' = NewJob(invocations + 1)
    /\ pc' = "afNetworking"
    /\ attempted' = {}
    /\ outcome' = "none"
    /\ failure' = NoFailure
    /\ quietWrites' = IF q THEN Append(quietWrites, HooksInstalled) ELSE quietWrites
    /\ UNCHANGED <<image, jobs, listeners, nextListener, replaced, blocks, synth,
                   pskAlloc, obs, tornDown, released>>

disable_afNetworking ==
    LET r == afNetworking(Cur, job.identifier)
    IN Statement("afNetworking", r, addInvocations(job, r.ret), "nsUrlSession")

disable_nsUrlSession ==
    LET r == nsUrlSession(Cur, job.identifier)
    IN Statement("nsUrlSession", r, addInvocations(job, r.ret), "trustKit")

disable_trustKit ==
    LET r == trustKit(Cur, job.identifier)
    IN Statement("trustKit", r, addInvocation(job, r.ret),
                 "cordovaCustomURLConnectionDelegate")

disable_cordovaCustomURLConnectionDelegate ==
    LET r == cordovaCustomURLConnectionDelegate(Cur, job.identifier)
    IN Statement("cordovaCustomURLConnectionDelegate", r, addInvocation(job, r.ret),
                 "sSLSetSessionOption")

disable_sSLSetSessionOption ==
    LET r == sSLSetSessionOption(Cur, job.identifier)
    IN Statement("sSLSetSessionOption", r, addReplacement(job, r.ret),
                 "sSLCreateContext")

disable_sSLCreateContext ==
    LET r == sSLCreateContext(Cur, job.identifier)
    IN Statement("sSLCreateContext", r, addReplacement(job, r.ret), "sSLHandshake")

disable_sSLHandshake ==
    LET r == sSLHandshake(Cur, job.identifier)
    IN Statement("sSLHandshake", r, addReplacement(job, r.ret),
                 "tlsHelperCreatePeerTrust")

disable_tlsHelperCreatePeerTrust ==
    LET r == tlsHelperCreatePeerTrust(Cur, job.identifier)
    IN Statement("tlsHelperCreatePeerTrust", r, addReplacement(job, r.ret),
                 "nwTlsCreatePeerTrust")

disable_nwTlsCreatePeerTrust ==
    LET r == nwTlsCreatePeerTrust(Cur, job.identifier)
    IN Statement("nwTlsCreatePeerTrust", r, addInvocation(job, r.ret),
                 "sSLCtxSetCustomVerify")

disable_sSLCtxSetCustomVerify ==
    LET r == sSLCtxSetCustomVerify(Cur, job.identifier)
    IN Statement("sSLCtxSetCustomVerify", r, addReplacements(job, r.ret), "jobsAdd")

\* jobs.add(job), the last statement
disable_jobsAdd ==
    /\ pc = "jobsAdd"
    /\ jobs' = Append(jobs, job)
    /\ pc' = "idle"
    /\ outcome' = "returned"
    /\ UNCHANGED <<image, quiet, failure, attempted, invocations, job, listeners,
                   nextListener, replaced, blocks, synth, pskAlloc, obs,
                   tornDown, quietWrites, released>>

----------------------------------------------------------------------------
(* The hooks' callbacks.  A call through a hooked function is modelled as   *)
(* one step that runs every callback the call meets; obs records what the   *)
(* real (un-hooked) code was given and what the caller got back.  Callbacks *)
(* run in the script's runtime, which the body of disable() holds while it  *)
(* runs, so calls are taken when no disable() is in progress.               *)

\* ../lib/helpers.js: qsend(quiet, message) sends unless quiet
qsend(q, log, message) == IF q THEN log ELSE Append(log, message)

ListenersAt(addr) == {l \in listeners : l.addr = addr}

kSSLSessionOptionBreakOnServerAuth == 0
noErr == 0
errSSLServerAuthCompared == -9481

\* onEnter of setSSLPinningMode:, policyWithPinningMode: and
\* policyWithPinningMode:withPinnedCertificates: -- args[2] after the callback
OnEnterPinningModeAltKeep(arg) == arg
OnEnterPinningMode(arg) == IF arg # 0 THEN 0 ELSE arg

\* onEnter of setAllowInvalidCertificates: -- args[2] after the callback
OnEnterAllowInvalid(arg) == IF arg = 0 THEN 1 ELSE arg

OnEnterAF(m, arg) == IF m = AFMethods[2] THEN OnEnterAllowInvalid(arg)
                     ELSE OnEnterPinningMode(arg)

\* n listeners on one address run one after the other on the same args
RECURSIVE RunOnEnterAF(_, _, _, _)
RunOnEnterAF(m, n, arg, log) ==
    IF n = 0 THEN [arg |-> arg, log |-> log]
    ELSE LET a == OnEnterAF(m, arg)
             l1 == qsend(quiet, log, "called")
             l2 == IF a # arg THEN qsend(quiet, l1, "altered") ELSE l1
         IN RunOnEnterAF(m, n - 1, a, l2)

\* an application call of one of the four AFSecurityPolicy methods
CallAFSecurityPolicy(m, arg) ==
    /\ pc = "idle"
    /\ m \in image
    /\ LET r == RunOnEnterAF(m, Cardinality(ListenersAt(m)), arg, <<>>)
       IN obs' = [fn |-> m, hooked |-> ListenersAt(m) # {}, args |-> <<arg>>,
                  real |-> << <<r.arg>> >>, log |-> r.log]
    /\ UNCHANGED <<image, quiet, pc, outcome, failure, attempted, invocations, job,
                   jobs, listeners, nextListener, replaced, blocks, synth, pskAlloc,
                   tornDown, quietWrites, released>>

\* onLeave of the TrustKit listener: any result but 0 becomes 0
OnLeaveTrustKitAltKeep(retval) == retval
OnLeaveTrustKit(retval) == IF retval # 0 THEN 0 ELSE retval

\* onLeave of the SSLCertificateChecker listener: a result of 0 becomes 1
OnLeaveCordova(retval) == IF retval = 0 THEN 1 ELSE retval

OnLeave(m, retval) == IF m = TSKMethod THEN OnLeaveTrustKit(retval)
                      ELSE OnLeaveCordova(retval)

\* n listeners on one address run one after the other on the same retval
RECURSIVE RunOnLeave(_, _, _, _)
RunOnLeave(m, n, retval, log) ==
    IF n = 0 THEN [retval |-> retval, log |-> log]
    ELSE LET r == OnLeave(m, retval)
             l1 == qsend(quiet, log, "called")
             l2 == IF r # retval THEN qsend(quiet, l1, "altered") ELSE l1
         IN RunOnLeave(m, n - 1, r, l2)

\* an application call of evaluateTrust:forHostname: or isFingerprintTrusted:;
\* the method itself runs and answers realRet before the listeners see it
CallOnLeaveMethod(m, realRet) ==
    /\ pc = "idle"
    /\ m \in image
    /\ LET r == RunOnLeave(m, Cardinality(ListenersAt(m)), realRet, <<>>)
       IN obs' = [fn |-> m, hooked |-> ListenersAt(m) # {}, args |-> <<>>,
                  real |-> << <<>> >>, realRet |-> realRet, ret |-> r.retval,
                  log |-> r.log]
    /\ UNCHANGED <<image, quiet, pc, outcome, failure, attempted, invocations, job,
                   jobs, listeners, nextListener, replaced, blocks, synth, pskAlloc,
                   tornDown, quietWrites, released>>

\* onEnter of the nw_tls_create_peer_trust listener: it reports the call
nwTlsCreatePeerTrust_onEnterAltSilent(args, log) == [args |-> args, log |-> log]
nwTlsCreatePeerTrust_onEnter(args, log) ==
    [args |-> args,
     log |-> qsend(quiet, log, "no working bypass implemented yet.")]

RECURSIVE RunOnEnterNwTls(_, _, _)
RunOnEnterNwTls(n, args, log) ==
    IF n = 0 THEN [args |-> args, log |-> log]
    ELSE LET r == nwTlsCreatePeerTrust_onEnter(args, log)
         IN RunOnEnterNwTls(n - 1, r.args, r.log)

\* a call of nw_tls_create_peer_trust; realRet is what the function answers
CallNwTlsCreatePeerTrust(args, realRet) ==
    /\ pc = "idle"
    /\ "nw_tls_create_peer_trust" \in image
    /\ LET at == ListenersAt("nw_tls_create_peer_trust")
           r == RunOnEnterNwTls(Cardinality(at), args, <<>>)
       IN obs' = [fn |-> "nw_tls_create_peer_trust", hooked |-> at # {},
                  args |-> args, real |-> << r.args >>, realRet |-> realRet,
                  ret |-> realRet, quiet |-> quiet, log |-> r.log]
    /\ UNCHANGED <<image, quiet, pc, outcome, failure, attempted, invocations, job,
                   jobs, listeners, nextListener, replaced, blocks, synth, pskAlloc,
                   tornDown, quietWrites, released>>

\* the NativeCallback that replaces SSLSetSessionOption; realRet is what the
\* real setter answers if it is reached.  The call it makes to its own
\* target from inside the replacement goes to the original.
SSLSetSessionOption_replacementAltForward(context, option, value, realRet) ==
    [ret |-> realRet, real |-> << <<context, option, value>> >>, log |-> <<>>]
SSLSetSessionOption_replacement(context, option, value, realRet) ==
    IF option = kSSLSessionOptionBreakOnServerAuth
    THEN [ret |-> noErr, real |-> <<>>, log |-> qsend(quiet, <<>>, "SSLSetSessionOption")]
    ELSE [ret |-> realRet, real |-> << <<context, option, value>> >>, log |-> <<>>]

\* a call to the address of SSLSetSessionOption from anywhere but its own
\* replacement
Invoke_SSLSetSessionOption(context, option, value, realRet) ==
    IF replaced["SSLSetSessionOption"] # 0
    THEN SSLSetSessionOption_replacement(context, option, value, realRet)
    ELSE [ret |-> realRet, real |-> << <<context, option, value>> >>, log |-> <<>>]

CallSSLSetSessionOption(context, option, value, realRet) ==
    /\ pc = "idle"
    /\ "SSLSetSessionOption" \in image
    /\ LET r == Invoke_SSLSetSessionOption(context, option, value, realRet)
       IN obs' = [fn |-> "SSLSetSessionOption",
                  hooked |-> replaced["SSLSetSessionOption"] # 0,
                  args |-> <<context, option, value>>, realRet |-> realRet,
                  real |-> r.real, ret |-> r.ret, log |-> r.log]
    /\ UNCHANGED <<image, quiet, pc, outcome, failure, attempted, invocations, job,
                   jobs, listeners, nextListener, replaced, blocks, synth, pskAlloc,
                   tornDown, quietWrites, released>>

\* the NativeCallback that replaces SSLCreateContext; sslContext is what the
\* real constructor returns.  requests are its calls to the address of
\* SSLSetSessionOption, setterReal those that reached the real setter.
SSLCreateContext_replacementAltOff(alloc, protocolSide, connectionType, sslContext, realRet) ==
    LET set == Invoke_SSLSetSessionOption(sslContext,
                   kSSLSessionOptionBreakOnServerAuth, 0, realRet)
    IN [ret |-> sslContext, real |-> << <<alloc, protocolSide, connectionType>> >>,
        requests |-> << <<sslContext, kSSLSessionOptionBreakOnServerAuth, 0>> >>,
        setterReal |-> set.real,
        log |-> qsend(quiet, set.log, "SSLCreateContext")]
SSLCreateContext_replacement(alloc, protocolSide, connectionType, sslContext, realRet) ==
    LET set == Invoke_SSLSetSessionOption(sslContext,
                   kSSLSessionOptionBreakOnServerAuth, 1, realRet)
    IN [ret |-> sslContext, real |-> << <<alloc, protocolSide, connectionType>> >>,
        requests |-> << <<sslContext, kSSLSessionOptionBreakOnServerAuth, 1>> >>,
        setterReal |-> set.real,
        log |-> qsend(quiet, set.log, "SSLCreateContext")]

CallSSLCreateContext(alloc, protocolSide, connectionType, sslContext, realRet) ==
    /\ pc = "idle"
    /\ "SSLCreateContext" \in image
    /\ LET r == IF replaced["SSLCreateContext"] # 0
                THEN SSLCreateContext_replacement(alloc, protocolSide,
                         connectionType, sslContext, realRet)
                ELSE [ret |-> sslContext,
                      real |-> << <<alloc, protocolSide, connectionType>> >>,
                      requests |-> <<>>, setterReal |-> <<>>, log |-> <<>>]
       IN obs' = [fn |-> "SSLCreateContext",
                  hooked |-> replaced["SSLCreateContext"] # 0,
                  args |-> <<alloc, protocolSide, connectionType>>,
                  created |-> sslContext, real |-> r.real, ret |-> r.ret,
                  requests |-> r.requests, setterReal |-> r.setterReal,
                  log |-> r.log]
    /\ UNCHANGED <<image, quiet, pc, outcome, failure, attempted, invocations, job,
                   jobs, listeners, nextListener, replaced, blocks, synth, pskAlloc,
                   tornDown, quietWrites, released>>

\* the NativeCallback that replaces SSLHandshake; results are what the real
\* handshake answers on its first and second call
SSLHandshake_replacementAltOnce(context, results) ==
    [ret |-> results[1], real |-> << <<context>> >>, log |-> <<>>]
SSLHandshake_replacement(context, results) ==
    LET result == results[1]
    IN IF result = errSSLServerAuthCompared
       THEN [ret |-> results[2], real |-> << <<context>>, <<context>> >>,
             log |-> qsend(quiet, <<>>, "SSLHandshake")]
       ELSE [ret |-> result, real |-> << <<context>> >>, log |-> <<>>]

CallSSLHandshake(context, results) ==
    /\ pc = "idle"
    /\ "SSLHandshake" \in image
    /\ LET r == IF replaced["SSLHandshake"] # 0
                THEN SSLHandshake_replacement(context, results)
                ELSE [ret |-> results[1], real |-> << <<context>> >>, log |-> <<>>]
       IN obs' = [fn |-> "SSLHandshake", hooked |-> replaced["SSLHandshake"] # 0,
                  args |-> <<context>>, results |-> results,
                  real |-> r.real, ret |-> r.ret, log |-> r.log]
    /\ UNCHANGED <<image, quiet, pc, outcome, failure, attempted, invocations, job,
                   jobs, listeners, nextListener, replaced, blocks, synth, pskAlloc,
                   tornDown, quietWrites, released>>

VerifyInstallers == {"SSL_set_custom_verify", "SSL_CTX_set_custom_verify"}

\* the synthetic verify callback of the job whose replacement is live
customVerifyCallback(ssl, out_alert) ==
    [ret |-> 0, log |-> qsend(quiet, <<>>, "customVerifyCallback")]

\* callbacks handed to the verify-installer: the application's, or the synthetic one
AppCallback(k) == [synthetic |-> FALSE, id |-> k]
SyntheticCallback(ident) == [synthetic |-> TRUE, id |-> ident]

\* what the TLS library gets when it invokes a registered verify callback;
\* appVerdict is what the application's callback would answer
InvokeVerifyCallback(callback, ssl, appVerdict) ==
    IF callback.synthetic THEN customVerifyCallback(ssl, 0).ret ELSE appVerdict

\* the NativeCallback that replaces the verify-installer f
setCustomVerify_replacement(f, ssl, mode, callback) ==
    [real |-> << [ssl |-> ssl, mode |-> mode,
                  callback |-> SyntheticCallback(replaced[f])] >>,
     log |-> qsend(quiet, <<>>, "SSL_CTX_set_custom_verify")]

CallSetCustomVerify(f, ssl, mode, callback, appVerdict) ==
    /\ pc = "idle"
    /\ f \in image
    /\ LET r == IF replaced[f] # 0
                THEN setCustomVerify_replacement(f, ssl, mode, callback)
                ELSE [real |-> << [ssl |-> ssl, mode |-> mode, callback |-> callback] >>,
                      log |-> <<>>]
       IN obs' = [fn |-> f, hooked |-> replaced[f] # 0,
                  args |-> [ssl |-> ssl, mode |-> mode, callback |-> callback],
                  real |-> r.real,
                  verify |-> InvokeVerifyCallback(r.real[1].callback, ssl, appVerdict),
                  appVerdict |-> appVerdict, log |-> r.log]
    /\ UNCHANGED <<image, quiet, pc, outcome, failure, attempted, invocations, job,
                   jobs, listeners, nextListener, replaced, blocks, synth, pskAlloc,
                   tornDown, quietWrites, released>>

\* the NativeCallback that replaces SSL_get_psk_identity: it returns the
\* address of a buffer from Memory.allocUtf8String, which lives only as long
\* as the script holds the handle
SSL_get_psk_identity_replacement(ssl) ==
    [ret |-> "allocUtf8String", real |-> <<>>,
     log |-> qsend(quiet, <<>>, "SSL_get_psk_identity")]

CallSSLGetPskIdentity(ssl) ==
    /\ pc = "idle"
    /\ "SSL_get_psk_identity" \in image
    /\ LET hooked == replaced["SSL_get_psk_identity"] # 0
           r == IF hooked THEN SSL_get_psk_identity_replacement(ssl)
                ELSE [ret |-> "identity", real |-> << <<ssl>> >>, log |-> <<>>]
       IN /\ obs' = [fn |-> "SSL_get_psk_identity", hooked |-> hooked,
                     args |-> <<ssl>>, real |-> r.real, ret |-> r.ret, log |-> r.log]
          /\ pskAlloc' = IF hooked THEN "live" ELSE pskAlloc
    /\ UNCHANGED <<image, quiet, pc, outcome, failure, attempted, invocations, job,
                   jobs, listeners, nextListener, replaced, blocks, synth,
                   tornDown, quietWrites, released>>

\* the handle of the returned buffer is unreachable once the replacement has
\* returned; the runtime frees the buffer when it collects the handle
CollectGarbage ==
    /\ pskAlloc = "live"
    /\ pskAlloc' = "freed"
    /\ UNCHANGED <<image, quiet, pc, outcome, failure, attempted, invocations, job,
                   jobs, listeners, nextListener, replaced, blocks, synth, obs,
                   tornDown, quietWrites, released>>

\* the caller of SSL_get_psk_identity reads the string it was returned; a
\* freed buffer holds whatever the allocator left or put there
ReadPskIdentity ==
    /\ pskAlloc # "none"
    /\ \E str \in (IF pskAlloc = "live" THEN {"fakePSKidentity"}
                   ELSE {"fakePSKidentity", "<freed memory>"}) :
          obs' = [fn |-> "read SSL_get_psk_identity result", hooked |-> TRUE,
                  str |-> str]
    /\ UNCHANGED <<image, quiet, pc, outcome, failure, attempted, invocations, job,
                   jobs, listeners, nextListener, replaced, blocks, synth, pskAlloc,
                   tornDown, quietWrites, released>>

\* the runtime frees the synthetic verify callback of job j once nothing in
\* the script refers to it: it is referred to only by the closures of the two
\* replacements the strategy installed, which the engine keeps until they
\* are reverted
CollectCallbacks(j) ==
    /\ pc = "idle"
    /\ j \in tornDown \ released
    /\ \A f \in VerifyInstallers : replaced[f] # j
    /\ released' = released \cup {j}
    /\ UNCHANGED <<image, quiet, pc, outcome, failure, attempted, invocations, job,
                   jobs, listeners, nextListener, replaced, blocks, synth, pskAlloc,
                   obs, tornDown, quietWrites>>

\* during a handshake the TLS library invokes the verify callback that the
\* last verify-installer call registered on its context; a freed callback is
\* a jump to released memory, which answers anything or faults (-1)
InvokeRegisteredVerify ==
    /\ pc = "idle"
    /\ obs.fn \in VerifyInstallers
    /\ LET reg == obs.real[1]
           live == ~(reg.callback.synthetic /\ reg.callback.id \in released)
       IN \E ret \in (IF live
                      THEN {InvokeVerifyCallback(reg.callback, reg.ssl, obs.appVerdict)}
                      ELSE {0, 1, 2, -1}) :
             obs' = [fn |-> "verify callback", hooked |-> reg.callback.synthetic,
                     callback |-> reg.callback, live |-> live, ret |-> ret,
                     torn |-> tornDown]
    /\ UNCHANGED <<image, quiet, pc, outcome, failure, attempted, invocations, job,
                   jobs, listeners, nextListener, replaced, blocks, synth, pskAlloc,
                   tornDown, quietWrites, released>>

----------------------------------------------------------------------------
(* NSURLSession: URLSession:didReceiveChallenge:completionHandler:          *)
(* A completion block is an object whose entry point (invoke) the hook      *)
(* overwrites in place.  blocks[b] is the block's current entry point: 0 is *)
(* the entry point the block was created with, k > 0 is synth[k].           *)

Blocks == {1, 2}
Challenges == {1, 2}

\* challenge.protectionSpace().serverTrust()
serverTrust(challenge) == 10 + challenge
\* NSURLCredential.credentialForTrust_(trust)
credentialForTrust(trust) == 100 + trust

\* onEnter of one listener: save the block's entry point, put a synthetic one
\* in its place.  bs, sy: the blocks and synthetic handlers so far
OnEnterDelegate(bs, sy, b, challenge) ==
    LET savedCompletionHandler == bs[b]
        sy1 == Append(sy, [saved |-> savedCompletionHandler,
                           challenge |-> challenge, block |-> b,
                           consumed |-> FALSE])
    IN [blocks |-> [bs EXCEPT ![b] = Len(sy1)], synth |-> sy1]

RECURSIVE RunOnEnterDelegate(_, _, _, _, _, _)
RunOnEnterDelegate(n, bs, sy, b, challenge, log) ==
    IF n = 0 THEN [blocks |-> bs, synth |-> sy, log |-> log]
    ELSE LET r == OnEnterDelegate(bs, sy, b, challenge)
         IN RunOnEnterDelegate(n - 1, r.blocks, r.synth, b, challenge,
                               qsend(quiet, log, "called"))

\* the delegate method d is called with completion block b for a challenge;
\* the method's own body (the application's accept/reject logic) still runs
CallDelegate(d, b, challenge) ==
    /\ pc = "idle"
    /\ d \in image
    /\ Len(synth) + Cardinality(ListenersAt(d)) <= MaxSynth
    /\ LET r == RunOnEnterDelegate(Cardinality(ListenersAt(d)), blocks, synth, b,
                                   challenge, <<>>)
       IN /\ blocks' = r.blocks
          /\ synth' = r.synth
          /\ obs' = [fn |-> d, hooked |-> ListenersAt(d) # {},
                     args |-> <<b, challenge>>, real |-> << <<b, challenge>> >>,
                     appLogic |-> 1, log |-> r.log]
    /\ UNCHANGED <<image, quiet, pc, outcome, failure, attempted, invocations, job,
                   jobs, listeners, nextListener, replaced, pskAlloc,
                   tornDown, quietWrites, released>>

InvokeEvent(by, callee, disposition, credential) ==
    [kind |-> "invoke", by |-> by, callee |-> callee, disposition |-> disposition,
     credential |-> credential, challenge |-> 0]
UseCredentialEvent(by, credential, challenge) ==
    [kind |-> "useCredential", by |-> by, callee |-> 0, disposition |-> 0,
     credential |-> credential, challenge |-> challenge]

\* the body of the synthetic completion handler k: what it does with the
\* arguments it was invoked with
SyntheticHandlerAltPassThrough(k, disposition, credential) ==
    << InvokeEvent(k, synth[k].saved, disposition, credential) >>
SyntheticHandler(k, disposition, credential) ==
    LET challenge == synth[k].challenge
        cred == credentialForTrust(serverTrust(challenge))
    IN << UseCredentialEvent(k, cred, challenge),
          InvokeEvent(k, synth[k].saved, 0, cred) >>

\* everything that runs when entry point `entry` is invoked by `by`
RECURSIVE RunEntry(_, _, _, _)
RunEntry(by, entry, disposition, credential) ==
    << InvokeEvent(by, entry, disposition, credential) >> \o
    (IF entry = 0 THEN <<>>
     ELSE LET body == SyntheticHandler(entry, disposition, credential)
              calls == SelectSeq(body, LAMBDA e : e.kind = "invoke")
          IN SelectSeq(body, LAMBDA e : e.kind # "invoke") \o
             (IF calls = <<>> THEN <<>>
              ELSE RunEntry(entry, calls[1].callee, calls[1].disposition,
                            calls[1].credential)))

\* the synthetic handlers that run when entry point `entry` is invoked
RECURSIVE Chain(_)
Chain(entry) == IF entry = 0 THEN {} ELSE {entry} \cup Chain(synth[entry].saved)

\* somebody invokes completion block b; reused: the synthetic handlers that
\* run although they had run before; torn, hooks: the Jobs torn down and
\* whether any hook is installed at the time of the invocation
InvokeCompletionHandler(b, disposition, credential) ==
    /\ pc = "idle"
    /\ obs' = [fn |-> "completionHandler", hooked |-> blocks[b] # 0,
               args |-> <<b, disposition, credential>>,
               events |-> RunEntry(-1, blocks[b], disposition, credential),
               appLogic |-> 0, log |-> <<>>,
               reused |-> {k \in Chain(blocks[b]) : synth[k].consumed},
               torn |-> tornDown, hooks |-> HooksInstalled]
    /\ synth' = [k \in DOMAIN synth |->
                    IF k \in Chain(blocks[b])
                    THEN [synth[k] EXCEPT !.consumed = TRUE] ELSE synth[k]]
    /\ UNCHANGED <<image, quiet, pc, outcome, failure, attempted, invocations, job,
                   jobs, listeners, nextListener, replaced, blocks, pskAlloc,
                   tornDown, quietWrites, released>>

----------------------------------------------------------------------------
(* Teardown.  The lifecycle manager's bulk teardown of one registered Job:  *)
(* every recorded observation hook is detached, every recorded replacement  *)
(* is reverted, and the Job is emptied and dropped from the registry.       *)
(* The script invokes it from outside disable(), so it runs when no         *)
(* disable() is in progress.                                                *)

\* the listeners that stay after the recorded ones of j are detached
detachAll(j, lst) == {l \in lst : l \notin Range(j.invocations)}

\* the replacement table after the recorded replacements of j are reverted
revertAll(j, rep) ==
    [e \in Exports |-> IF e \in Range(j.replacements) THEN 0 ELSE rep[e]]

RemoveAt(seq, i) == SubSeq(seq, 1, i - 1) \o SubSeq(seq, i + 1, Len(seq))

Teardown(i) ==
    /\ pc = "idle"
    /\ i \in DOMAIN jobs
    /\ listeners' = detachAll(jobs[i], listeners)
    /\ replaced' = revertAll(jobs[i], replaced)
    /\ jobs' = RemoveAt(jobs, i)
    /\ tornDown' = tornDown \cup {jobs[i].identifier}
    /\ UNCHANGED <<image, quiet, pc, outcome, failure, attempted, invocations, job,
                   nextListener, blocks, synth, pskAlloc, obs, quietWrites,
                   released>>

----------------------------------------------------------------------------
(* Specification of the installation: disable() over every process image   *)

InitWith(images) ==
    /\ image \in images
    /\ quiet = FALSE
    /\ pc = "idle"
    /\ outcome = "none"
    /\ failure = NoFailure
    /\ attempted = {}
    /\ invocations = 0
    /\ job = NewJob(0)
    /\ jobs = <<>>
    /\ listeners = {}
    /\ nextListener = 1
    /\ replaced = [e \in Exports |-> 0]
    /\ blocks = [b \in Blocks |-> 0]
    /\ synth = <<>>
    /\ pskAlloc = "none"
    /\ obs = [fn |-> "none"]
    /\ tornDown = {}
    /\ quietWrites = <<>>
    /\ released = {}

Init == InitWith(Images)

Next ==
    \/ \E q \in BOOLEAN : disable(q)
    \/ disable_afNetworking
    \/ disable_nsUrlSession
    \/ disable_trustKit
    \/ disable_cordovaCustomURLConnectionDelegate
    \/ disable_sSLSetSessionOption
    \/ disable_sSLCreateContext
    \/ disable_sSLHandshake
    \/ disable_tlsHelperCreatePeerTrust
    \/ disable_nwTlsCreatePeerTrust
    \/ disable_sSLCtxSetCustomVerify
    \/ disable_jobsAdd

Spec == Init /\ [][Next]_vars

----------------------------------------------------------------------------
(* Specification of the calls through the hooked functions *)

\* the full image and every image that lacks one class, method or export
CallImages == {AllTargets} \cup
              {{t \in AllTargets \ {x} : ClassOf(t) # x} : x \in AllTargets}

Contexts == {1, 2}
OptionIds == {0, 1, 2}
BoolValues == {0, 1}
StatusCodes == {0, -50}
HandshakeCodes == {0, -9481, -9807}
PinningModes == {0, 1, 2}
VerifyModes == {0, 1}
VerifyVerdicts == {0, 1, 2}
TrustDecisions == {0, 1, 2}

InitCalls == InitWith(CallImages)

NextCalls ==
    \/ Next
    \/ \E m \in Range(AFMethods), arg \in PinningModes : CallAFSecurityPolicy(m, arg)
    \/ \E context \in Contexts, option \in OptionIds, value \in BoolValues,
          realRet \in StatusCodes :
          CallSSLSetSessionOption(context, option, value, realRet)
    \/ \E alloc \in {0}, side \in {0, 1}, type \in {0}, sslContext \in Contexts,
          realRet \in StatusCodes :
          CallSSLCreateContext(alloc, side, type, sslContext, realRet)
    \/ \E context \in Contexts, r1 \in HandshakeCodes, r2 \in HandshakeCodes :
          CallSSLHandshake(context, <<r1, r2>>)
    \/ \E f \in {"SSL_set_custom_verify", "SSL_CTX_set_custom_verify"},
          ssl \in Contexts, mode \in VerifyModes, k \in {1},
          appVerdict \in VerifyVerdicts :
          CallSetCustomVerify(f, ssl, mode, AppCallback(k), appVerdict)
    \/ \E ssl \in Contexts : CallSSLGetPskIdentity(ssl)
    \/ CollectGarbage
    \/ ReadPskIdentity
    \/ \E realRet \in TrustDecisions : CallOnLeaveMethod(TSKMethod, realRet)
    \/ \E realRet \in BoolValues : CallOnLeaveMethod(CordovaMethod, realRet)
    \/ \E args \in Contexts, realRet \in BoolValues :
          CallNwTlsCreatePeerTrust(args, realRet)

SpecCalls == InitCalls /\ [][NextCalls]_vars

----------------------------------------------------------------------------
(* Specification of the challenge interception *)

ChallengeImages == {AllTargets}

Dispositions == {0, 2}
Credentials == {0, 111}

InitChallenge == InitWith(ChallengeImages)

NextChallenge ==
    \/ Next
    \/ \E d \in Range(DelegateImpls), b \in Blocks, challenge \in Challenges :
          CallDelegate(d, b, challenge)
    \/ \E b \in Blocks, disposition \in Dispositions, credential \in Credentials :
          InvokeCompletionHandler(b, disposition, credential)

SpecChallenge == InitChallenge /\ [][NextChallenge]_vars

----------------------------------------------------------------------------
(* Specification of teardown: disable(), calls that leave something behind  *)
(* in the process (a substituted block entry point, a registered verify     *)
(* callback), teardown of the Jobs, and what runs afterwards                *)

InitTeardown == InitWith({AllTargets})

NextTeardown ==
    \/ Next
    \/ \E i \in 1..MaxInvocations : Teardown(i)
    \/ \E d \in Range(DelegateImpls) : CallDelegate(d, 1, 1)
    \/ \E disposition \in {2} : InvokeCompletionHandler(1, disposition, 0)
    \/ \E f \in VerifyInstallers, appVerdict \in {1} :
          CallSetCustomVerify(f, 1, 1, AppCallback(1), appVerdict)
    \/ \E j \in 1..MaxInvocations : CollectCallbacks(j)
    \/ InvokeRegisteredVerify

SpecTeardown == InitTeardown /\ [][NextTeardown]_vars

----------------------------------------------------------------------------
(* Properties *)

Ended == pc = "idle" /\ outcome # "none"

\* C1: every invocation of a synthetic completion handler applies the
\* credential built from the trust object of its own challenge and invokes
\* the entry point it captured exactly once, with disposition 0 and that
\* credential, whatever it was invoked with; the application's accept/reject
\* logic is not run by it.
C1_SyntheticInvokesCapturedOnce ==
    obs.fn = "completionHandler" =>
        /\ obs.appLogic = 0
        /\ \A i \in DOMAIN obs.events :
              LET e == obs.events[i]
              IN (e.kind = "invoke" /\ e.callee # 0) =>
                    LET k == e.callee
                        cred == credentialForTrust(serverTrust(synth[k].challenge))
                        made == SelectSeq(obs.events,
                                    LAMBDA x : x.kind = "invoke" /\ x.by = k)
                    IN /\ made = << InvokeEvent(k, synth[k].saved, 0, cred) >>
                       /\ i + 2 <= Len(obs.events)
                       /\ obs.events[i + 1] =
                              UseCredentialEvent(k, cred, synth[k].challenge)
                       /\ obs.events[i + 2] = made[1]

\* a synthetic handler invoked with "cancel" and no credential has reached
\* the original entry point with "use credential"
C1_Witness ==
    /\ obs.fn = "completionHandler"
    /\ obs.hooked
    /\ obs.args[2] = 2
    /\ obs.args[3] = 0
    /\ Len(obs.events) >= 3
    /\ obs.events[Len(obs.events)].callee = 0
    /\ obs.events[Len(obs.events)].disposition = 0
    /\ obs.events[Len(obs.events)].credential # 0

\* C2: through the SSLHandshake replacement, a first result of -9481 means
\* two real handshakes on the caller's context and the second result
\* returned; any other first result means one real handshake and that result.
C2_HandshakeRetriedOnServerAuth ==
    (obs.fn = "SSLHandshake" /\ obs.hooked) =>
        IF obs.results[1] = -9481
        THEN obs.real = << obs.args, obs.args >> /\ obs.ret = obs.results[2]
        ELSE obs.real = << obs.args >> /\ obs.ret = obs.results[1]

C2_Witness ==
    /\ obs.fn = "SSLHandshake"
    /\ obs.hooked
    /\ obs.results = <<-9481, -9807>>
    /\ obs.ret = -9807
    /\ Len(obs.real) = 2

\* C3: through the SSLSetSessionOption replacement, option 0 returns 0
\* without the real setter being called, for every value; any other option
\* calls the real setter once with the same arguments and returns its result.
C3_BreakOnServerAuthSetterNoOp ==
    (obs.fn = "SSLSetSessionOption" /\ obs.hooked) =>
        IF obs.args[2] = 0
        THEN obs.ret = 0 /\ obs.real = <<>>
        ELSE obs.real = << obs.args >> /\ obs.ret = obs.realRet

C3_Witness ==
    /\ obs.fn = "SSLSetSessionOption"
    /\ obs.hooked
    /\ obs.args[2] = 0
    /\ obs.args[3] = 1
    /\ obs.realRet = -50
    /\ obs.ret = 0
    /\ obs.real = <<>>

C3_WitnessForwarded ==
    /\ obs.fn = "SSLSetSessionOption"
    /\ obs.hooked
    /\ obs.args[2] = 2
    /\ obs.ret = -50

\* C4 as claimed: through the SSLCreateContext replacement the real
\* constructor is called once with the caller's arguments, the replacement
\* then writes break-on-server-auth OFF (value 0) on the new context, and
\* the new context is returned.
C4_ForcesOptionOff ==
    (obs.fn = "SSLCreateContext" /\ obs.hooked) =>
        /\ obs.real = << obs.args >>
        /\ obs.requests = << <<obs.created, 0, 0>> >>
        /\ obs.ret = obs.created

\* C4 as amended: through the SSLCreateContext replacement the real
\* constructor is called once with the caller's arguments, the replacement
\* then calls SSLSetSessionOption once on the new context with option
\* break-on-server-auth and value 1 (on), and the new context is returned.
C4_RequestsOptionOn ==
    (obs.fn = "SSLCreateContext" /\ obs.hooked) =>
        /\ obs.real = << obs.args >>
        /\ obs.requests = << <<obs.created, 0, 1>> >>
        /\ obs.ret = obs.created

C4_Witness ==
    /\ obs.fn = "SSLCreateContext"
    /\ obs.hooked
    /\ obs.created = 2
    /\ obs.ret = 2
    /\ Len(obs.requests) = 1
    /\ obs.requests[1][1] = 2

\* C5: through the AFNetworking hooks the original runs exactly once per
\* call and sees pinning mode 0 (the three mode methods) and a non-zero
\* allow flag (setAllowInvalidCertificates:), whatever the caller passed.
C5_OriginalSeesMutatedArgument ==
    (obs.fn \in Range(AFMethods) /\ obs.hooked) =>
        /\ Len(obs.real) = 1
        /\ obs.fn \in {AFMethods[1], AFMethods[3], AFMethods[4]} => obs.real[1][1] = 0
        /\ obs.fn = AFMethods[2] => obs.real[1][1] # 0

C5_Witness ==
    /\ obs.fn = AFMethods[1]
    /\ obs.hooked
    /\ obs.args = <<2>>
    /\ obs.real = << <<0>> >>

C5_WitnessAllow ==
    /\ obs.fn = AFMethods[2]
    /\ obs.hooked
    /\ obs.args = <<0>>
    /\ obs.real = << <<1>> >>

\* C6: with the custom-verify strategy installed, the verify-installer
\* registers the synthetic callback with the caller's context and mode, the
\* registered callback answers 0, and the identity lookup gives its caller
\* the string "fakePSKidentity" without the original being called.
C6_CustomVerifyAlwaysSucceeds ==
    /\ (obs.fn \in {"SSL_set_custom_verify", "SSL_CTX_set_custom_verify"} /\ obs.hooked) =>
          /\ Len(obs.real) = 1
          /\ obs.real[1].ssl = obs.args.ssl
          /\ obs.real[1].mode = obs.args.mode
          /\ obs.real[1].callback.synthetic
          /\ obs.verify = 0
    /\ (obs.fn = "SSL_get_psk_identity" /\ obs.hooked) => obs.real = <<>>
    /\ obs.fn = "read SSL_get_psk_identity result" => obs.str = "fakePSKidentity"

\* C7: when a strategy fails, the strategies after it are still attempted.
C7_FailuresIsolated ==
    Ended => attempted = Range(Strategies)

\* C8: an absent target raises no error, gets no hook and blocks no other
\* strategy.
C8_AbsentTargetsSkipped ==
    /\ failure.cause \notin {"missing_method", "null_address"}
    /\ \A l \in listeners : l.addr \in image
    /\ \A e \in Exports : replaced[e] # 0 => e \in image
    /\ (Ended /\ failure.cause # "conflict") => attempted = Range(Strategies)

\* the hooks a job identifier installed
ListenersOf(ident) == {l \in listeners : l.ident = ident}
ReplacementsOf(ident) == {e \in Exports : replaced[e] = ident}

\* C9: once a disable() has ended, normally or not, its Job has been handed
\* to jobs.add exactly once and holds every hook the call installed.
C9_InstalledHooksInRegisteredJob ==
    Ended =>
        /\ Len(SelectSeq(jobs, LAMBDA j : j.identifier = job.identifier)) = 1
        /\ \A j \in Range(jobs) : j.identifier = job.identifier =>
              /\ ListenersOf(j.identifier) \subseteq Range(j.invocations)
              /\ ReplacementsOf(j.identifier) \subseteq Range(j.replacements)

\* C10: every entry recorded in the Job is a hook installed on a resolved
\* target: no null listener and no NULL address.
C10_JobHoldsOnlyInstalledHooks ==
    /\ \A i \in DOMAIN job.invocations :
          job.invocations[i] # NoListener /\ job.invocations[i] \in listeners
    /\ \A i \in DOMAIN job.replacements :
          job.replacements[i] # NULL /\ replaced[job.replacements[i]] = job.identifier

\* C11: when disable() runs again while the hooks of an earlier Job are still
\* installed, the rejection of a replacement over an already replaced address
\* stays inside the strategy that met it: the earlier replacements stay in
\* effect and the call does not end with that conflict as its error.
C11_ConflictScopedToStrategy ==
    /\ \A e \in Exports : replaced[e] \in {0, 1}
    /\ Ended => ~(outcome = "threw" /\ failure.cause = "conflict")

\* C12: over all the disable() calls of one process the quiet flag is written
\* at most once, and no write happens while a hook of an earlier call is
\* installed.
C12_QuietWrittenOnceBeforeHooks ==
    /\ Len(quietWrites) <= 1
    /\ \A i \in DOMAIN quietWrites : ~quietWrites[i]

\* C13: the entry point an interception captures is the entry point the
\* application created the block with, never a synthetic handler of an
\* earlier interception, and the credential that reaches the application's
\* entry point is the one built from the challenge of the interception that
\* was made last on that block.
C13_CapturedIsOriginal ==
    /\ \A k \in DOMAIN synth : synth[k].saved = 0
    /\ (obs.fn = "completionHandler" /\ obs.hooked) =>
          LET last == obs.events[Len(obs.events)]
              k == blocks[obs.args[1]]
          IN last.callee = 0 =>
                last.credential = credentialForTrust(serverTrust(synth[k].challenge))

\* C14: a synthetic completion handler invokes the entry point it captured at
\* most once over all the invocations of the block: no synthetic handler runs
\* a second time.
C14_SyntheticSingleUse ==
    obs.fn = "completionHandler" => obs.reused = {}

\* C15: once a Job has been torn down and no hook is installed in the
\* process, an invoked completion block runs the entry point the application
\* created it with, with the arguments it was invoked with, and no forged
\* credential is applied.
C15_TeardownRestoresBlocks ==
    (obs.fn = "completionHandler" /\ obs.torn # {} /\ ~obs.hooks) =>
        obs.events = << InvokeEvent(-1, 0, obs.args[2], obs.args[3]) >>

\* C16: the synthetic verify callback that a replacement registered with the
\* TLS library is live whenever the library invokes it, also after the Job
\* that installed the replacement was torn down.
C16_RegisteredCallbackStaysLive ==
    obs.fn = "verify callback" => obs.live

C17_WitnessCordova ==
    ~(obs.fn = CordovaMethod /\ obs.hooked /\ obs.realRet = 0 /\ obs.ret # 0)

C19_WitnessQuiet ==
    ~(obs.fn = "nw_tls_create_peer_trust" /\ obs.hooked /\ obs.quiet
      /\ obs.log = <<>>)

\* the custom-verify strategy has run in the current disable() and did not throw
CustomVerifyRan ==
    /\ "sSLCtxSetCustomVerify" \in attempted
    /\ failure.strategy # "sSLCtxSetCustomVerify"

C18_WitnessNoPsk ==
    ~(/\ CustomVerifyRan
      /\ "SSL_set_custom_verify" \in image
      /\ "SSL_get_psk_identity" \notin image
      /\ replaced["SSL_set_custom_verify"] = 0)

\* C20: when the constructor replacement runs (the setter replacement is
\* installed before it), its write of the break-on-server-auth option on the
\* created context reaches the real option setter exactly once.
C20_ConstructorWriteReachesSetter ==
    (obs.fn = "SSLCreateContext" /\ obs.hooked) =>
        obs.setterReal = << <<obs.created, kSSLSessionOptionBreakOnServerAuth, 1>> >>

====
